---- MODULE Spec2Model ----
(***************************************************************************)
(* Model of job01_record_voice.py: the per-sentence recording loop of      *)
(* main(), the progress file read by load_progress() and written by        *)
(* save_progress(), the take files written by record_audio(), and the      *)
(* scoring done by calculate_accuracy().                                   *)
(*                                                                         *)
(* Text (file contents, typed input, sentences, transcriptions) is a       *)
(* sequence of one-character strings.  The progress file is a record       *)
(* [exists, content].  A take file is a record [n, ts, chunks]: the path   *)
(* recordings/sentence_<n>_<ts>.wav and the number of chunks it holds.     *)
(* A process run is a "session"; pc = "off" means no process is running.   *)
(***************************************************************************)
EXTENDS Integers, Sequences, FiniteSets, TLC

\* ------------------------------------------------------------------ bounds
MaxSentences == 2
MaxSessions == 2
MaxClock == 1
MaxChunks == 1
MaxLen == 3

\* ------------------------------------------------------------ text helpers
Digits == <<"0", "1", "2", "3", "4", "5", "6", "7", "8", "9">>

IsDigit(c) == \E i \in 1..10 : Digits[i] = c

DigitVal(c) == (CHOOSE i \in 1..10 : Digits[i] = c) - 1

Whitespace == {" ", "\n", "\t"}

RECURSIVE LStrip(_)
LStrip(s) ==
    IF s # <<>> /\ Head(s) \in Whitespace THEN LStrip(Tail(s)) ELSE s

RECURSIVE RStrip(_)
RStrip(s) ==
    IF s # <<>> /\ s[Len(s)] \in Whitespace
    THEN RStrip(SubSeq(s, 1, Len(s) - 1))
    ELSE s

\* str.strip()
Strip(s) == RStrip(LStrip(s))

RECURSIVE NatStr(_)
NatStr(n) ==
    IF n < 10 THEN <<Digits[n + 1]>>
    ELSE NatStr(n \div 10) \o <<Digits[(n % 10) + 1]>>

\* str(index)
Str(n) == IF n < 0 THEN <<"-">> \o NatStr(0 - n) ELSE NatStr(n)

RECURSIVE DigitsVal(_, _)
DigitsVal(s, acc) ==
    IF s = <<>> THEN acc
    ELSE DigitsVal(Tail(s), 10 * acc + DigitVal(Head(s)))

AllDigits(s) == s # <<>> /\ \A i \in 1..Len(s) : IsDigit(s[i])

\* int(text): an optional sign followed by at least one decimal digit,
\* surrounding whitespace ignored; anything else raises ValueError.
IntParses(s) ==
    LET t == Strip(s) IN
    IF t # <<>> /\ Head(t) \in {"-", "+"} THEN AllDigits(Tail(t))
    ELSE AllDigits(t)

IntValue(s) ==
    LET t == Strip(s) IN
    IF Head(t) = "-" THEN 0 - DigitsVal(Tail(t), 0)
    ELSE IF Head(t) = "+" THEN DigitsVal(Tail(t), 0)
    ELSE DigitsVal(t, 0)

\* ------------------------------------------------------------ progress file
Absent == [exists |-> FALSE, content |-> <<>>]

FileOf(s) == [exists |-> TRUE, content |-> s]

\* load_progress(): 0 when the file is absent or its content is not an int
load_progress(f) ==
    IF f.exists
    THEN IF IntParses(Strip(f.content)) THEN IntValue(Strip(f.content)) ELSE 0
    ELSE 0

\* open(PROGRESS_FILE, 'a'): keeps what the file holds
OpenForAppend(f) == FileOf(f.content)

\* open(PROGRESS_FILE, 'w'): creates or truncates the file
OpenForWrite(f) == FileOf(<<>>)

\* f.write(str(index)) followed by the close of the with block
WriteIndex(f, index) == FileOf(f.content \o Str(index))

\* ------------------------------------------------------------------ scoring
Min2(a, b) == IF a < b THEN a ELSE b

Max2(a, b) == IF a > b THEN a ELSE b

RECURSIVE GCD(_, _)
GCD(a, b) == IF b = 0 THEN a ELSE GCD(b, a % b)

\* Levenshtein.distance(a, b): unit-cost insert / delete / substitute
RECURSIVE Distance(_, _)
Distance(a, b) ==
    IF a = <<>> THEN Len(b)
    ELSE IF b = <<>> THEN Len(a)
    ELSE IF Head(a) = Head(b) THEN Distance(Tail(a), Tail(b))
    ELSE 1 + Min2(Distance(Tail(a), b),
                  Min2(Distance(a, Tail(b)), Distance(Tail(a), Tail(b))))

\* A percentage is the fraction num/den in lowest terms.
Pct(num, den) ==
    LET g == GCD(num, den) IN [num |-> num \div g, den |-> den \div g]

Zero == Pct(0, 1)

Hundred == Pct(100, 1)

\* calculate_accuracy normalised by len(original) in place of the longer of
\* the two lengths
calculate_accuracyByOriginal(original, transcribed) ==
    IF transcribed = <<>> THEN Zero
    ELSE LET distance == Distance(original, transcribed)
             max_length == Len(original)
         IN IF max_length = 0
            THEN (IF original = transcribed THEN Hundred ELSE Zero)
            ELSE IF distance > max_length THEN Zero
            ELSE Pct((max_length - distance) * 100, max_length)

\* calculate_accuracy(original, transcribed)
calculate_accuracy(original, transcribed) ==
    IF transcribed = <<>> THEN Zero
    ELSE LET distance == Distance(original, transcribed)
             max_length == Max2(Len(original), Len(transcribed))
         IN IF max_length = 0
            THEN (IF original = transcribed THEN Hundred ELSE Zero)
            ELSE LET a == Pct((max_length - distance) * 100, max_length)
                 IN IF a.num < 0 THEN Zero ELSE a

\* -------------------------------------------------------------- environment
\* Row i (1-based) of korean_corpus.csv; a row may hold an empty first field.
CorpusRow(i) ==
    IF i % 3 = 1 THEN <<"a", "b">> ELSE IF i % 3 = 2 THEN <<"b">> ELSE <<>>

Corpus(n) == [i \in 1..n |-> CorpusRow(i)]

\* Texts recognize_google may return.
Hypotheses == {<<"a", "b">>, <<"a">>, <<"b", "a", "b">>}

\* Lines the operator may type at the prompt.
Inputs == {<<"1">>, <<"2">>, <<"3">>, <<"4">>, <<"5">>, <<>>,
           <<" ", "3", " ">>, <<"3", "3">>}

\* Contents recording_progress.txt may have when the program is first run.
InitialFiles ==
    {Absent, FileOf(<<>>), FileOf(<<"x">>), FileOf(<<"0">>), FileOf(<<"1">>),
     FileOf(<<"2">>), FileOf(<<" ", "1", "\n">>), FileOf(<<"-", "1">>),
     FileOf(<<"-", "9">>), FileOf(<<"9">>), FileOf(<<"1", "x">>)}

NoFile == [n |-> 0, ts |-> 0 - 1]

\* -------------------------------------------------------------------- state
VARIABLES
    progressFile,      \* recording_progress.txt
    files,             \* take files in recordings/: records [n, ts, chunks]
    clock,             \* wall clock, in seconds
    sessions,          \* number of process runs started so far
    sentences,         \* main: sentences
    pc,                \* position of the running process, "off" if none
    exit,              \* how the last process run ended
    error,             \* the exception that ended it, if any
    current_index,     \* main: current_index
    audio_file,        \* main: audio_file, as [n, ts]
    recording,         \* record_audio: number of chunks in recording
    transcribed_text,  \* main: transcribed_text
    stt,               \* which branch of speech_to_text returned
    accuracy,          \* main: accuracy
    choice,            \* main: choice
    playback,          \* outcome of the last playsound call
    loaded,            \* value load_progress() returned to this run
    writes,            \* values this run has passed to f.write, in order
    firstCheckpoint,   \* value load_progress() would return before any run
    advances           \* number of times the operator has chosen '3'

vars == <<progressFile, files, clock, sessions, sentences, pc, exit, error,
          current_index, audio_file, recording, transcribed_text, stt,
          accuracy, choice, playback, loaded, writes, firstCheckpoint,
          advances>>

durable == <<progressFile, files>>

locals == <<current_index, audio_file, recording, transcribed_text, stt,
            accuracy, choice, playback>>

history == <<loaded, writes, firstCheckpoint, advances>>

total_sentences == Len(sentences)

\* sentences[current_index], with Python's negative indexing
IndexInRange(i) == 0 - total_sentences <= i /\ i < total_sentences

SentenceAt(i) == IF i >= 0 THEN sentences[i + 1]
                 ELSE sentences[total_sentences + i + 1]

\* the take files stored under the path of file name af
AtPath(af) == {f \in files : f.n = af.n /\ f.ts = af.ts}

\* the take files of sentence number n (1-based, as in the file name)
TakesOf(n) == {f \in files : f.n = n}

Running == pc # "off"

Init ==
    /\ progressFile \in InitialFiles
    /\ files = {}
    /\ clock = 0
    /\ sessions = 0
    /\ sentences \in {Corpus(n) : n \in 0..MaxSentences}
    /\ pc = "off"
    /\ exit = "none"
    /\ error = "none"
    /\ current_index = 0
    /\ audio_file = NoFile
    /\ recording = 0
    /\ transcribed_text = <<>>
    /\ stt = "none"
    /\ accuracy = Zero
    /\ choice = <<>>
    /\ playback = "none"
    /\ loaded = 0
    /\ writes = <<>>
    /\ firstCheckpoint = load_progress(progressFile)
    /\ advances = 0

\* An exception that reaches the handlers of the __main__ block.
Raise(e) ==
    /\ pc' = "off"
    /\ exit' = "Exception"
    /\ error' = e

\* ------------------------------------------------------------------ actions
\* Start with the entry test current_index > total_sentences
StartStrictTest ==
    /\ pc = "off"
    /\ sessions < MaxSessions
    /\ sessions' = sessions + 1
    /\ current_index' = load_progress(progressFile)
    /\ loaded' = load_progress(progressFile)
    /\ writes' = <<>>
    /\ audio_file' = NoFile
    /\ recording' = 0
    /\ transcribed_text' = <<>>
    /\ stt' = "none"
    /\ accuracy' = Zero
    /\ choice' = <<>>
    /\ playback' = "none"
    /\ error' = "none"
    /\ IF load_progress(progressFile) > total_sentences
       THEN pc' = "off" /\ exit' = "all_recorded"
       ELSE pc' = "sentence" /\ exit' = "none"
    /\ UNCHANGED <<durable, clock, sentences, firstCheckpoint, advances>>

\* A process run begins: main() up to the first test of the while loop.
Start ==
    /\ pc = "off"
    /\ sessions < MaxSessions
    /\ sessions' = sessions + 1
    /\ current_index' = load_progress(progressFile)
    /\ loaded' = load_progress(progressFile)
    /\ writes' = <<>>
    /\ audio_file' = NoFile
    /\ recording' = 0
    /\ transcribed_text' = <<>>
    /\ stt' = "none"
    /\ accuracy' = Zero
    /\ choice' = <<>>
    /\ playback' = "none"
    /\ error' = "none"
    /\ IF load_progress(progressFile) >= total_sentences
       THEN pc' = "off" /\ exit' = "all_recorded"
       ELSE pc' = "sentence" /\ exit' = "none"
    /\ UNCHANGED <<durable, clock, sentences, firstCheckpoint, advances>>

\* Top of the outer loop: pick the sentence and name the take file.
BeginSentence ==
    /\ pc = "sentence"
    /\ IF IndexInRange(current_index)
       THEN /\ \E ts \in clock..Min2(clock + 1, MaxClock) :
                 /\ clock' = ts
                 /\ audio_file' = [n |-> current_index + 1, ts |-> ts]
            /\ pc' = "record"
            /\ UNCHANGED <<exit, error>>
       ELSE /\ Raise("IndexError")
            /\ UNCHANGED <<clock, audio_file>>
    /\ UNCHANGED <<durable, sessions, sentences, current_index, recording,
                   transcribed_text, stt, accuracy, choice, playback, history>>

\* record_audio(audio_file): the chunks read while the key is held are
\* concatenated and written; np.concatenate raises ValueError on an empty list.
record_audio ==
    /\ pc = "record"
    /\ \E n \in 0..MaxChunks :
         /\ recording' = n
         /\ IF n = 0
            THEN /\ Raise("ValueError")
                 /\ UNCHANGED files
            ELSE /\ files' = (files \ AtPath(audio_file))
                       \cup {[n |-> audio_file.n, ts |-> audio_file.ts,
                              chunks |-> n]}
                 /\ pc' = "transcribe"
                 /\ UNCHANGED <<exit, error>>
    /\ UNCHANGED <<progressFile, clock, sessions, sentences, current_index,
                   audio_file, transcribed_text, stt, accuracy, choice,
                   playback, history>>

\* The input device cannot be opened or the stream fails: nothing is written.
CaptureFault ==
    /\ pc = "record"
    /\ recording' = 0
    /\ Raise("PortAudioError")
    /\ UNCHANGED <<durable, clock, sessions, sentences, current_index,
                   audio_file, transcribed_text, stt, accuracy, choice,
                   playback, history>>

\* speech_to_text without the except clause for sr.RequestError
speech_to_textUncaught ==
    /\ pc = "transcribe"
    /\ \/ /\ \E h \in Hypotheses : transcribed_text' = h /\ stt' = "text"
          /\ pc' = "score"
          /\ UNCHANGED <<exit, error>>
       \/ /\ transcribed_text' = <<>> /\ stt' = "UnknownValueError"
          /\ pc' = "score"
          /\ UNCHANGED <<exit, error>>
       \/ /\ transcribed_text' = transcribed_text /\ stt' = "RequestError"
          /\ Raise("RequestError")
    /\ UNCHANGED <<durable, clock, sessions, sentences, current_index,
                   audio_file, recording, accuracy, choice, playback, history>>

\* speech_to_text(audio_file)
speech_to_text ==
    /\ pc = "transcribe"
    /\ \/ \E h \in Hypotheses : transcribed_text' = h /\ stt' = "text"
       \/ transcribed_text' = <<>> /\ stt' = "UnknownValueError"
       \/ transcribed_text' = <<>> /\ stt' = "RequestError"
    /\ pc' = "score"
    /\ UNCHANGED <<durable, clock, sessions, sentences, exit, error,
                   current_index, audio_file, recording, accuracy, choice,
                   playback, history>>

Score ==
    /\ pc = "score"
    /\ accuracy' = calculate_accuracy(SentenceAt(current_index),
                                      transcribed_text)
    /\ pc' = "prompt"
    /\ UNCHANGED <<durable, clock, sessions, sentences, exit, error,
                   current_index, audio_file, recording, transcribed_text,
                   stt, choice, playback, history>>

\* choice = input(...).strip()
Prompt ==
    /\ pc = "prompt"
    /\ \E line \in Inputs :
         /\ choice' = Strip(line)
         /\ advances' = IF Strip(line) = <<"3">> THEN advances + 1
                        ELSE advances
    /\ pc' = "decided"
    /\ UNCHANGED <<durable, clock, sessions, sentences, exit, error,
                   current_index, audio_file, recording, transcribed_text,
                   stt, accuracy, playback, loaded, writes, firstCheckpoint>>

\* input() raises EOFError when standard input is closed.
PromptEOF ==
    /\ pc = "prompt"
    /\ Raise("EOFError")
    /\ UNCHANGED <<durable, clock, sessions, sentences, locals, history>>

\* choice '1': playsound, whose failure is caught; the if chain ends and the
\* while True loop starts its next iteration.
Play ==
    /\ pc = "decided"
    /\ choice = <<"1">>
    /\ playback' \in {"played", "failed"}
    /\ pc' = "record"
    /\ UNCHANGED <<durable, clock, sessions, sentences, exit, error,
                   current_index, audio_file, recording, transcribed_text,
                   stt, accuracy, choice, history>>

\* Redo without the os.remove
RedoKeepsFile ==
    /\ pc = "decided"
    /\ choice = <<"2">>
    /\ files' = files
    /\ pc' = "record"
    /\ UNCHANGED <<progressFile, clock, sessions, sentences, exit, error,
                   locals, history>>

\* choice '2': remove the take file and continue
Redo ==
    /\ pc = "decided"
    /\ choice = <<"2">>
    /\ files' = files \ AtPath(audio_file)
    /\ pc' = "record"
    /\ UNCHANGED <<progressFile, clock, sessions, sentences, exit, error,
                   locals, history>>

\* choice '3': save_progress(current_index + 1), first the open ...
AdvanceOpen ==
    /\ pc = "decided"
    /\ choice = <<"3">>
    /\ progressFile' = OpenForWrite(progressFile)
    /\ pc' = "advance_write"
    /\ UNCHANGED <<files, clock, sessions, sentences, exit, error, locals,
                   history>>

\* AdvanceWrite with save_progress(current_index) in place of
\* save_progress(current_index + 1)
AdvanceWriteSameIndex ==
    /\ pc = "advance_write"
    /\ progressFile' = WriteIndex(progressFile, current_index)
    /\ writes' = Append(writes, current_index)
    /\ pc' = "advance_inc"
    /\ UNCHANGED <<files, clock, sessions, sentences, exit, error, locals,
                   loaded, firstCheckpoint, advances>>

\* ... then the write
AdvanceWrite ==
    /\ pc = "advance_write"
    /\ progressFile' = WriteIndex(progressFile, current_index + 1)
    /\ writes' = Append(writes, current_index + 1)
    /\ pc' = "advance_inc"
    /\ UNCHANGED <<files, clock, sessions, sentences, exit, error, locals,
                   loaded, firstCheckpoint, advances>>

\* current_index += 1; break; the completion test; the outer loop test
AdvanceNext ==
    /\ pc = "advance_inc"
    /\ current_index' = current_index + 1
    /\ IF current_index + 1 >= total_sentences
       THEN pc' = "off" /\ exit' = "completed"
       ELSE pc' = "sentence" /\ exit' = exit
    /\ UNCHANGED <<durable, clock, sessions, sentences, error, audio_file,
                   recording, transcribed_text, stt, accuracy, choice,
                   playback, history>>

\* choice '4': save_progress(current_index), first the open ...
QuitOpen ==
    /\ pc = "decided"
    /\ choice = <<"4">>
    /\ progressFile' = OpenForWrite(progressFile)
    /\ pc' = "quit_write"
    /\ UNCHANGED <<files, clock, sessions, sentences, exit, error, locals,
                   history>>

\* QuitWrite with save_progress(current_index - 1), the index of the last
\* finished sentence, in place of save_progress(current_index)
QuitWriteLastDone ==
    /\ pc = "quit_write"
    /\ progressFile' = WriteIndex(progressFile, current_index - 1)
    /\ writes' = Append(writes, current_index - 1)
    /\ pc' = "off"
    /\ exit' = "quit"
    /\ UNCHANGED <<files, clock, sessions, sentences, error, locals, loaded,
                   firstCheckpoint, advances>>

\* QuitWrite with save_progress(current_index + 1), counting the take in
\* progress as done
QuitWriteCountsTake ==
    /\ pc = "quit_write"
    /\ progressFile' = WriteIndex(progressFile, current_index + 1)
    /\ writes' = Append(writes, current_index + 1)
    /\ pc' = "off"
    /\ exit' = "quit"
    /\ UNCHANGED <<files, clock, sessions, sentences, error, locals, loaded,
                   firstCheckpoint, advances>>

\* ... then the write, and the return
QuitWrite ==
    /\ pc = "quit_write"
    /\ progressFile' = WriteIndex(progressFile, current_index)
    /\ writes' = Append(writes, current_index)
    /\ pc' = "off"
    /\ exit' = "quit"
    /\ UNCHANGED <<files, clock, sessions, sentences, error, locals, loaded,
                   firstCheckpoint, advances>>

\* any other choice: the message, then the next iteration of while True
Invalid ==
    /\ pc = "decided"
    /\ choice \notin {<<"1">>, <<"2">>, <<"3">>, <<"4">>}
    /\ pc' = "record"
    /\ UNCHANGED <<durable, clock, sessions, sentences, exit, error, locals,
                   history>>

\* Interrupt with a handler that saves current_index before it exits
InterruptSavesIndex ==
    /\ Running
    /\ progressFile' = WriteIndex(OpenForWrite(progressFile), current_index)
    /\ writes' = Append(writes, current_index)
    /\ pc' = "off"
    /\ exit' = "KeyboardInterrupt"
    /\ UNCHANGED <<files, clock, sessions, sentences, error, locals, loaded,
                   firstCheckpoint, advances>>

\* Ctrl-C (or the death of the process) at any point of a run.
Interrupt ==
    /\ Running
    /\ pc' = "off"
    /\ exit' = "KeyboardInterrupt"
    /\ UNCHANGED <<durable, clock, sessions, sentences, error, locals,
                   history>>

Next ==
    \/ Start
    \/ BeginSentence
    \/ record_audio
    \/ CaptureFault
    \/ speech_to_text
    \/ Score
    \/ Prompt
    \/ PromptEOF
    \/ Play
    \/ Redo
    \/ AdvanceOpen
    \/ AdvanceWrite
    \/ AdvanceNext
    \/ QuitOpen
    \/ QuitWrite
    \/ Invalid
    \/ Interrupt

Spec == Init /\ [][Next]_vars

\* ------------------------------------------------------------------- claims
\* the step just taken is the operator's interrupt
Interrupted == pc = "off" /\ exit = "KeyboardInterrupt"

\* the process is inside the advance decision's save
InAdvance == (pc = "decided" /\ choice = <<"3">>) \/ pc = "advance_write"

\* C1: every step that is not part of the advance decision leaves the value
\* load_progress() would return unchanged.
C1_OnlyAdvanceMutates ==
    [][~InAdvance =>
         load_progress(progressFile') = load_progress(progressFile)]_vars

\* C2: the advance decision on index i stores i + 1 before the index moves,
\* and the run then goes on with sentence i + 1, or ends as completed when
\* i + 1 is the number of sentences.
C2_AdvancePersistsThenMoves ==
    /\ [](pc = "advance_inc" =>
            load_progress(progressFile) = current_index + 1)
    /\ [][/\ (pc = "decided" /\ choice = <<"3">> /\ ~Interrupted')
               => (pc' = "advance_write" /\ current_index' = current_index)
          /\ (pc = "advance_write" /\ ~Interrupted')
               => /\ pc' = "advance_inc"
                  /\ current_index' = current_index
                  /\ load_progress(progressFile') = current_index + 1
          /\ (pc = "advance_inc" /\ ~Interrupted')
               => /\ current_index' = current_index + 1
                  /\ progressFile' = progressFile
                  /\ IF current_index + 1 = total_sentences
                     THEN pc' = "off" /\ exit' = "completed"
                     ELSE pc' = "sentence"]_vars

\* C2 witness: a run that advanced twice and ended as completed
C2_Witness ==
    /\ pc = "off"
    /\ exit = "completed"
    /\ writes = <<1, 2>>
    /\ current_index = 2

\* C3: a run that quits on index i ends with the stored checkpoint i, and the
\* next run starts on sentence i.
C3_QuitKeepsIndex ==
    /\ []((pc = "off" /\ exit = "quit") =>
            load_progress(progressFile) = current_index)
    /\ [][/\ (pc = "decided" /\ choice = <<"4">> /\ ~Interrupted')
               => (pc' = "quit_write" /\ current_index' = current_index)
          /\ (pc = "quit_write" /\ ~Interrupted')
               => /\ pc' = "off"
                  /\ exit' = "quit"
                  /\ current_index' = current_index
                  /\ load_progress(progressFile') = current_index
          /\ (pc = "off" /\ exit = "quit" /\ sessions' # sessions)
               => (pc' = "sentence" /\ current_index' = current_index)]_vars

\* C3 witness: sentence 1 advanced, then a quit on sentence 2, and a further
\* run can start
C3_Witness ==
    /\ pc = "off"
    /\ exit = "quit"
    /\ loaded = 0
    /\ writes = <<1, 1>>
    /\ current_index = 1
    /\ sessions < MaxSessions

\* C4: the stored checkpoint never exceeds its value before the first run
\* plus the number of advance decisions.
C4_NeverSkipped ==
    load_progress(progressFile) <= firstCheckpoint + advances

\* C5: once a run has loaded the checkpoint, its index and every value it
\* writes lie in 0..total_sentences.
C5_CheckpointBounds ==
    sessions > 0 =>
        /\ 0 <= current_index /\ current_index <= total_sentences
        /\ \A i \in 1..Len(writes) :
               0 <= writes[i] /\ writes[i] <= total_sentences

\* C6: within one run the values written to the progress file never
\* decrease, and none is below the value loaded at the start of the run.
C6_WritesMonotone ==
    \A i \in 1..Len(writes) :
        /\ writes[i] >= loaded
        /\ i > 1 => writes[i] >= writes[i - 1]

\* C6 witness: a run that wrote twice, the second value above the first
C6_Witness == Len(writes) = 2 /\ writes[1] < writes[2]

\* C7: after the play decision the next step is the prompt for the same
\* take; take file, transcription, accuracy and checkpoint are unchanged.
C7_PlayReentersPrompt ==
    [][(pc = "decided" /\ choice = <<"1">> /\ ~Interrupted')
         => /\ pc' = "prompt"
            /\ UNCHANGED <<files, audio_file, transcribed_text, accuracy,
                           current_index, progressFile>>]_vars

\* C8: after an input other than 1, 2, 3, 4 the next step is the prompt for
\* the same take; take file, index and checkpoint are unchanged.
C8_InvalidReentersPrompt ==
    [][(/\ pc = "decided"
        /\ choice \notin {<<"1">>, <<"2">>, <<"3">>, <<"4">>}
        /\ ~Interrupted')
         => /\ pc' = "prompt"
            /\ UNCHANGED <<files, audio_file, current_index,
                           progressFile>>]_vars

\* what redo does: the take's file goes, the run is back at recording for
\* the same sentence and path, the checkpoint is untouched
RedoStep ==
    (pc = "decided" /\ choice = <<"2">> /\ ~Interrupted')
      => /\ AtPath(audio_file) # {}
         /\ files' = files \ AtPath(audio_file)
         /\ pc' = "record"
         /\ current_index' = current_index
         /\ audio_file' = audio_file
         /\ progressFile' = progressFile

\* the capture that follows a redo
CaptureAfterRedo == pc = "record" /\ choice = <<"2">> /\ pc' = "transcribe"

\* C9 as stated: redo as above, and after the following capture the
\* sentence has exactly one take file.
C9_RedoLeavesOneTake ==
    /\ [][RedoStep]_vars
    /\ []((pc = "transcribe" /\ choice = <<"2">>)
            => Cardinality(TakesOf(audio_file.n)) = 1)

\* C9 amended: redo as above, and the following capture puts back exactly
\* the one file redo removed, at the same path; take files of the sentence
\* under other paths, left by earlier runs, stay as they are.
C9_RedoRecreatesTake ==
    [][/\ RedoStep
       /\ CaptureAfterRedo
            => /\ AtPath(audio_file) = {}
               /\ \E f \in files' :
                    /\ f.n = audio_file.n
                    /\ f.ts = audio_file.ts
                    /\ files' = files \cup {f}
               /\ audio_file' = audio_file
               /\ current_index' = current_index
               /\ progressFile' = progressFile]_vars

\* C9 witness: a capture after a redo, with a take file of the same sentence
\* left by an earlier run
C9_Witness ==
    /\ pc = "transcribe"
    /\ choice = <<"2">>
    /\ Cardinality(AtPath(audio_file)) = 1
    /\ Cardinality(TakesOf(audio_file.n)) = 2

\* C10: a capture that buffered no chunk does not end the run: the run goes
\* on to transcription and scoring.
C10_EmptyCaptureNoCrash ==
    [][(/\ pc = "record"
        /\ pc' # "record"
        /\ recording' = 0
        /\ error' # "PortAudioError"
        /\ ~Interrupted')
         => pc' = "transcribe"]_vars

\* the branches of speech_to_text that report a failure
RecognitionFailed(r) == r \in {"UnknownValueError", "RequestError"}

\* C11: a recognition failure gives the empty transcription and accuracy 0,
\* leaves the checkpoint alone, and the run reaches the prompt for the same
\* sentence.
C11_RecognitionFailureNonFatal ==
    [][/\ (pc = "transcribe" /\ RecognitionFailed(stt') /\ ~Interrupted')
            => /\ pc' = "score"
               /\ transcribed_text' = <<>>
               /\ UNCHANGED <<progressFile, current_index, audio_file>>
       /\ (pc = "score" /\ RecognitionFailed(stt) /\ ~Interrupted')
            => /\ pc' = "prompt"
               /\ accuracy' = Zero
               /\ transcribed_text' = <<>>
               /\ UNCHANGED <<progressFile, current_index, audio_file>>]_vars

\* C11 witness: at the prompt after each kind of failure (here the service
\* error), with nothing transcribed and accuracy 0
C11_Witness ==
    /\ pc = "prompt"
    /\ stt = "RequestError"
    /\ transcribed_text = <<>>
    /\ accuracy = Zero

\* the progress file holds a complete decimal integer
HoldsInteger(f) == f.exists /\ IntParses(f.content)

\* C12: a progress file that holds a complete integer keeps holding one at
\* every step, equal to the old value or to the value being written.
C12_AtomicCheckpointWrite ==
    [][HoldsInteger(progressFile)
         => /\ HoldsInteger(progressFile')
            /\ load_progress(progressFile')
                 \in {load_progress(progressFile), current_index,
                      current_index + 1}]_vars

\* the stages in which the run waits for the operator or a service
Blocking == {"record", "transcribe", "score", "prompt"}

\* the value of this run's last completed save, or the value it loaded
LastSaved == IF writes = <<>> THEN loaded ELSE writes[Len(writes)]

\* C13: an interrupt or exception in a blocking stage ends the process
\* through the top-level handlers without a checkpoint write; the stored
\* checkpoint is that of the last completed save, or the startup content.
C13_AbortKeepsCheckpoint ==
    /\ [](pc \in Blocking => load_progress(progressFile) = LastSaved)
    /\ [][(pc \in Blocking /\ pc' = "off")
            => /\ exit' \in {"KeyboardInterrupt", "Exception"}
               /\ progressFile' = progressFile
               /\ writes' = writes]_vars

\* C13 witness: a run ended by a capture error after it had saved once
C13_Witness ==
    /\ pc = "off"
    /\ exit = "Exception"
    /\ error = "PortAudioError"
    /\ writes = <<1>>
    /\ load_progress(progressFile) = 1

\* C14: a run that loads a checkpoint at or above the number of sentences
\* ends at once as all recorded, with no recording, prompt or write.
C14_EntryAtOrPastTotal ==
    [][(/\ pc = "off"
        /\ sessions' # sessions
        /\ load_progress(progressFile) >= total_sentences)
         => /\ pc' = "off"
            /\ exit' = "all_recorded"
            /\ writes' = <<>>
            /\ UNCHANGED <<progressFile, files, clock>>]_vars

\* C14 witness: a second run that found the checkpoint equal to the number
\* of sentences
C14_Witness ==
    /\ pc = "off"
    /\ exit = "all_recorded"
    /\ sessions = 2
    /\ total_sentences > 0
    /\ current_index = total_sentences

\* ------------------------------------------------------- scoring in isolation
\* the texts of at most MaxLen characters over a two-letter alphabet
RECURSIVE Texts(_)
Texts(n) ==
    IF n = 0 THEN {<<>>}
    ELSE Texts(n - 1) \cup
         {Append(t, c) : t \in {u \in Texts(n - 1) : Len(u) = n - 1},
                         c \in {"a", "b"}}

\* A run about to score: one sentence, any reference and any transcription.
ScoreInit ==
    /\ progressFile = Absent
    /\ files = {[n |-> 1, ts |-> 0, chunks |-> 1]}
    /\ clock = 0
    /\ sessions = 1
    /\ sentences \in {<<t>> : t \in Texts(MaxLen)}
    /\ pc = "score"
    /\ exit = "none"
    /\ error = "none"
    /\ current_index = 0
    /\ audio_file = [n |-> 1, ts |-> 0]
    /\ recording = 1
    /\ transcribed_text \in Texts(MaxLen)
    /\ stt = IF transcribed_text = <<>> THEN "UnknownValueError" ELSE "text"
    /\ accuracy = Zero
    /\ choice = <<>>
    /\ playback = "none"
    /\ loaded = 0
    /\ writes = <<>>
    /\ firstCheckpoint = 0
    /\ advances = 0

ScoreSpec == ScoreInit /\ [][Score]_vars

\* the reference sentence of the take being scored
reference == SentenceAt(current_index)

\* Edit distance by the full table: D[i, j] is the distance between the
\* first i characters of a and the first j characters of b.
TableDistance(a, b) ==
    LET D[i \in 0..Len(a), j \in 0..Len(b)] ==
            IF i = 0 THEN j
            ELSE IF j = 0 THEN i
            ELSE Min2(D[i - 1, j] + 1,
                      Min2(D[i, j - 1] + 1,
                           D[i - 1, j - 1]
                             + (IF a[i] = b[j] THEN 0 ELSE 1)))
    IN D[Len(a), Len(b)]

\* C15: a transcription equal to the reference scores 100, the empty
\* transcription of the empty reference included.
C15_IdenticalScoresHundred ==
    (pc = "prompt" /\ transcribed_text = reference) => accuracy = Hundred

\* C16: the score is (1 - d/max_len) * 100 with d the table distance, it
\* lies in 0..100, and it is 0 for an empty transcription of a non-empty
\* reference.
C16_ScoreIsNormalisedDistance ==
    pc = "prompt" =>
        LET d == TableDistance(reference, transcribed_text)
            m == Max2(Len(reference), Len(transcribed_text))
        IN /\ m > 0 => accuracy.num * m = (m - d) * 100 * accuracy.den
           /\ accuracy.den > 0
           /\ 0 <= accuracy.num
           /\ accuracy.num <= 100 * accuracy.den
           /\ (transcribed_text = <<>> /\ reference # <<>>)
                => accuracy = Zero

\* C16 witness: a transcription longer than its reference, partly right
C16_Witness ==
    /\ pc = "prompt"
    /\ reference = <<"a", "b">>
    /\ transcribed_text = <<"b", "a", "b">>
    /\ accuracy = Pct(200, 3)

\* ------------------------------------------------------ store and session
\* C17: a save of n in 0..total_sentences is read back as n, and a run that
\* finds the file absent, empty or non-numeric starts at index 0.
C17_StoreRoundTrip ==
    [][/\ writes' # writes /\ writes' # <<>>
            => LET n == writes'[Len(writes')]
               IN (0 <= n /\ n <= total_sentences)
                    => /\ progressFile' = FileOf(Str(n))
                       /\ load_progress(progressFile') = n
       /\ (/\ pc = "off"
           /\ sessions' # sessions
           /\ ~HoldsInteger(progressFile))
            => /\ current_index' = 0
               /\ loaded' = 0
               /\ exit' # "Exception"
               /\ total_sentences > 0 => pc' = "sentence"]_vars

\* C17 witness: a run that began on a file without a number in it and saved
\* the number of sentences
C17_Witness ==
    /\ firstCheckpoint = 0
    /\ loaded = 0
    /\ sessions = 1
    /\ total_sentences = 2
    /\ writes = <<1, 2>>
    /\ progressFile = FileOf(<<"2">>)

\* C18: one run from checkpoint 0 and an empty recordings directory that
\* advances every sentence ends with the checkpoint at the number of
\* sentences and one take file for each sentence.
C18_OneTakePerSentence ==
    (/\ sessions = 1
     /\ loaded = 0
     /\ pc = "off"
     /\ exit = "completed")
      => /\ load_progress(progressFile) = total_sentences
         /\ Cardinality(files) = total_sentences
         /\ \A n \in 1..total_sentences : Cardinality(TakesOf(n)) = 1

\* C18 witness: such a run over two sentences
C18_Witness ==
    /\ sessions = 1
    /\ loaded = 0
    /\ pc = "off"
    /\ exit = "completed"
    /\ total_sentences = 2
    /\ Cardinality(files) = 2

\* C19: in a running process the index equals the value load_progress()
\* would return, except between the save and the increment of the advance
\* step, where the file is ahead by one.
C19_IndexMatchesCheckpoint ==
    Running =>
        IF pc = "advance_inc"
        THEN load_progress(progressFile) = current_index + 1
        ELSE load_progress(progressFile) = current_index

\* ------------------------------------------------------------------ liveness
\* a capture that buffered at least one chunk
Capture == record_audio /\ recording' > 0

\* the operator types 3 at the prompt
PromptAdvance == Prompt /\ choice' = <<"3">>

\* The steps of runs in which no capture error, end of input or interrupt
\* occurs.
LiveNext ==
    \/ Start
    \/ BeginSentence
    \/ Capture
    \/ speech_to_text
    \/ Score
    \/ Prompt
    \/ Play
    \/ Redo
    \/ AdvanceOpen
    \/ AdvanceWrite
    \/ AdvanceNext
    \/ QuitOpen
    \/ QuitWrite
    \/ Invalid

\* The process takes its next step whenever it has one, and an operator who
\* is prompted again and again chooses advance at some point.
LiveSpec ==
    /\ Init
    /\ [][LiveNext]_vars
    /\ WF_vars(LiveNext)
    /\ SF_vars(PromptAdvance)

\* the run has ended as completed with the checkpoint at the sentence count
Completed ==
    /\ pc = "off"
    /\ exit = "completed"
    /\ load_progress(progressFile) = total_sentences

\* C20: a run on a sentence with index 0 or above ends, as completed with
\* the checkpoint at the number of sentences or by the operator's quit; a
\* quit decision ends the run.
C20_SessionTerminates ==
    /\ (pc = "sentence" /\ current_index >= 0)
         ~> (Completed \/ (pc = "off" /\ exit = "quit"))
    /\ (pc = "decided" /\ choice = <<"4">>) ~> (pc = "off" /\ exit = "quit")

\* C20 witness: a run that started below the sentence count has completed
C20_Witness ==
    /\ Completed
    /\ 0 <= loaded
    /\ loaded < total_sentences
    /\ Len(writes) = total_sentences - loaded

====
